---- MODULE Spec2Model ----
(***************************************************************************)
(* The battle simulator of the Pokemon MCP server (battle_simulator.py,    *)
(* pokemon_data.py) as a state machine.                                    *)
(*                                                                         *)
(* Each request to POST /battle/simulate is a coroutine on one asyncio     *)
(* event loop.  A request can be suspended only where it awaits upstream   *)
(* I/O (asyncio.gather of the two creature loads, build_type_chart,        *)
(* select_move); the turn loop itself awaits nothing that suspends, so it  *)
(* runs without any other request in between.  The module-level `random`   *)
(* generator and the module-level `_cache` are shared by all requests.     *)
(*                                                                         *)
(* Conventions.                                                            *)
(*   Optional[T]   a sequence of length 0 (None) or 1 (<<v>>).             *)
(*   Optional[List[str]]  a sequence; None and [] are both <<>> (the code  *)
(*                 only tests `if provided:`).                             *)
(*   floats        exact rationals num/den; int() is truncation.  Rounding *)
(*                 of IEEE doubles at exact integer boundaries is not      *)
(*                 represented.                                            *)
(***************************************************************************)
EXTENDS Integers, Sequences, FiniteSets, TLC

(***************************************************************************)
(* Bounds of the exploration.                                              *)
(***************************************************************************)
\* random.random() is one of u/RngMod, u in 0..RngMod-1
RngMod == 2
\* a seeded generator has RngCycle states
RngCycle == 5
\* explicit max_turns values of the explored requests are 1..MaxTurnsBound
MaxTurnsBound == 2
\* explicit random_seed values of the explored requests are 1..MaxSeed
MaxSeed == 2
\* concurrent requests to the data endpoint
MaxFetchers == 3

(***************************************************************************)
(* Program constants.                                                      *)
(***************************************************************************)
DefaultLevel == 50
DefaultMaxTurns == 200
DefaultStat == 10
FallbackScan == 40

None == << >>
Some(v) == <<v>>
\* Python's `x or d` for an Optional[int]: None and 0 are both falsy.
OrDefault(x, d) == IF x = None THEN d ELSE IF x[1] = 0 THEN d ELSE x[1]

NONE == "none"
PARALYSIS == "paralysis"
BURN == "burn"
POISON == "poison"
Statuses == {NONE, PARALYSIS, BURN, POISON}

Sides == {"attacker", "defender"}
Other(s) == IF s = "attacker" THEN "defender" ELSE "attacker"

Max(a, b) == IF a >= b THEN a ELSE b
\* int(n/d) for d > 0: truncation toward zero
Trunc(n, d) == IF n >= 0 THEN n \div d ELSE -((-n) \div d)

(***************************************************************************)
(* Stat and damage helpers.                                                *)
(***************************************************************************)
\* (a slip: the base counted three times)
compute_hp_from_base_thrice(base_hp, level) ==
    Max(1, Trunc((3 * base_hp + 31) * level + 100 * (level + 10), 100))

compute_hp_from_base(base_hp, level) ==
    Max(1, Trunc((2 * base_hp + 31) * level + 100 * (level + 10), 100))

stat_at_level(base, level) ==
    Max(1, Trunc((2 * base + 31) * level + 500, 100))

\* random.uniform(0.85, 1.0) = 0.85 + 0.15 * random(), as a fraction over
\* 20 * RngMod, for random() = u / RngMod
UniformNum(u) == 17 * RngMod + 3 * u
UniformDen == 20 * RngMod

\* attack2 is twice the (possibly halved) attack stat; modifier = mnum/mden.
\*   base = (((2L)/5 + 2) * power * (attack / max(1, defense))) / 50 + 2
\*        = ((L + 5) * power * attack2 + 500 * D) / (250 * D)
calc_damage(level, power, attack2, defense, mnum, mden, u) ==
    LET D == Max(1, defense)
        bnum == (level + 5) * power * attack2 + 500 * D
        bden == 250 * D
        dmg == Trunc(bnum * mnum * UniformNum(u), bden * mden * UniformDen)
    IN  Max(1, dmg)


(***************************************************************************)
(* Upstream data the loaders return (fetch_json of the reference API): a   *)
(* small fixed data set.                                                   *)
(***************************************************************************)
\* GET /type: the list of types, and each type's damage_relations
TypeList == <<"normal", "fire", "water">>
TypeNames == {TypeList[i] : i \in 1..Len(TypeList)}
TypeData ==
    [t \in TypeNames |->
        CASE t = "normal" -> [double |-> {}, half |-> {}, zero |-> {}]
          [] t = "fire"   -> [double |-> {}, half |-> {"fire", "water"}, zero |-> {}]
          [] t = "water"  -> [double |-> {"fire"}, half |-> {"water"}, zero |-> {}]]

\* GET /move/<name>: the fields get_move_data keeps.  effect_words is the set
\* of keyword families that occur in the move's effect_entries texts.
MoveNames == {"tackle", "sear", "surge", "zap", "smog", "splash"}
MoveData ==
    [m \in MoveNames |->
        CASE m = "tackle" -> [name |-> m, power |-> Some(40), accuracy |-> Some(50),
                              type |-> "normal", damage_class |-> "physical",
                              effect_words |-> {"poison"}, effect_chance |-> None]
          [] m = "sear"   -> [name |-> m, power |-> Some(120), accuracy |-> Some(100),
                              type |-> "fire", damage_class |-> "special",
                              effect_words |-> {"burn"}, effect_chance |-> Some(30)]
          [] m = "surge"  -> [name |-> m, power |-> Some(120), accuracy |-> Some(100),
                              type |-> "water", damage_class |-> "special",
                              effect_words |-> {"burn", "poison"}, effect_chance |-> Some(30)]
          [] m = "zap"    -> [name |-> m, power |-> Some(60), accuracy |-> None,
                              type |-> "electric", damage_class |-> "physical",
                              effect_words |-> {"paraly"}, effect_chance |-> Some(30)]
          [] m = "smog"   -> [name |-> m, power |-> None, accuracy |-> Some(50),
                              type |-> "normal", damage_class |-> "status",
                              effect_words |-> {"poison"}, effect_chance |-> Some(40)]
          [] m = "splash" -> [name |-> m, power |-> None, accuracy |-> None,
                              type |-> "normal", damage_class |-> "status",
                              effect_words |-> {}, effect_chance |-> None]]

\* GET /pokemon/<name>: the fields get_pokemon_data keeps.  "rat" has no
\* special-attack entry in its stats; "tank" knows no damaging move.
PokemonNames == {"charm", "rat", "tank"}
PokemonData ==
    [p \in PokemonNames |->
        CASE p = "charm" -> [name |-> p,
                             stats |-> [s \in {"hp", "attack", "special-attack", "speed"} |->
                                           IF s = "speed" THEN 40 ELSE 10],
                             types |-> <<"fire">>,
                             moves |-> <<"smog", "tackle", "sear">>]
          [] p = "rat"   -> [name |-> p,
                             stats |-> [s \in {"hp", "attack", "speed"} |-> 10],
                             types |-> <<"normal">>,
                             moves |-> <<"splash", "zap", "surge">>]
          [] p = "tank"  -> [name |-> p,
                             stats |-> [s \in {"hp", "attack", "special-attack", "speed"} |->
                                           IF s = "hp" THEN 100 ELSE 10],
                             types |-> <<"water", "normal">>,
                             moves |-> <<"splash">>]]

\* stats.get(key, 10)
StatOr(stats, key) == IF key \in DOMAIN stats THEN stats[key] ELSE DefaultStat

(***************************************************************************)
(* build_type_chart: the table built when the per-type fetches of the      *)
(* types in `failed` raise (their rows are skipped).  Multipliers are kept *)
(* doubled: 0, 1, 2, 4 stand for 0.0, 0.5, 1.0, 2.0.                       *)
(***************************************************************************)
ChartRow(t) ==
    LET dr == TypeData[t]
    IN  [d \in TypeNames \cup dr.double \cup dr.half \cup dr.zero |->
            IF d \in dr.zero THEN 0
            ELSE IF d \in dr.half THEN 1
            ELSE IF d \in dr.double THEN 4
            ELSE 2]

BuildChart(failed) == [t \in TypeNames \ failed |-> ChartRow(t)]

\* type_chart.get(move_type, {}).get(t, 1.0), doubled
ChartGet(chart, move_type, t) ==
    IF move_type \in DOMAIN chart
    THEN IF t \in DOMAIN chart[move_type] THEN chart[move_type][t] ELSE 2
    ELSE 2

\* type_multiplier as a fraction <<num, den>>: the product over target_types
RECURSIVE type_multiplier(_, _, _)
type_multiplier(chart, move_type, target_types) ==
    IF target_types = << >> THEN <<1, 1>>
    ELSE LET rest == type_multiplier(chart, move_type, Tail(target_types))
         IN  <<ChartGet(chart, move_type, Head(target_types)) * rest[1], 2 * rest[2]>>

(***************************************************************************)
(* select_move, for the set `failed` of move names whose load raises.      *)
(***************************************************************************)
Struggle(poke) ==
    [name |-> "struggle", power |-> Some(50), accuracy |-> Some(100),
     type |-> poke.types[1], damage_class |-> "physical",
     effect_words |-> {}, effect_chance |-> None]

Loads(name, failed) == name \in MoveNames /\ name \notin failed

RECURSIVE FirstLoaded(_, _)
FirstLoaded(names, failed) ==
    IF names = << >> THEN None
    ELSE IF Loads(Head(names), failed) THEN Some(MoveData[Head(names)])
    ELSE FirstLoaded(Tail(names), failed)

IsCandidate(md) ==
    /\ OrDefault(md.power, 0) # 0
    /\ md.damage_class \in {"physical", "special"}

\* the candidates in scan order
RECURSIVE Candidates(_, _)
Candidates(names, failed) ==
    IF names = << >> THEN << >>
    ELSE LET rest == Candidates(Tail(names), failed)
         IN  IF Loads(Head(names), failed) /\ IsCandidate(MoveData[Head(names)])
             THEN <<MoveData[Head(names)]>> \o rest
             ELSE rest

\* candidates.sort(key=power, reverse=True)[0]: the first of the highest power
RECURSIVE Best(_)
Best(cands) ==
    IF Len(cands) = 1 THEN cands[1]
    ELSE LET b == Best(Tail(cands))
         IN  IF Head(cands).power[1] >= b.power[1] THEN Head(cands) ELSE b

\* (a slip: no fallback scan)
select_move_noscan(poke, provided, failed) ==
    IF FirstLoaded(provided, failed) # None
    THEN FirstLoaded(provided, failed)[1]
    ELSE Struggle(poke)

select_move(poke, provided, failed) ==
    LET explicit == FirstLoaded(provided, failed)
        scan == SubSeq(poke.moves, 1, IF Len(poke.moves) < FallbackScan
                                      THEN Len(poke.moves) ELSE FallbackScan)
        cands == Candidates(scan, failed)
    IN  IF explicit # None THEN explicit[1]
        ELSE IF cands # << >> THEN Best(cands)
        ELSE Struggle(poke)

(***************************************************************************)
(* Status engine.                                                          *)
(***************************************************************************)
detect_status_from_move(move) ==
    IF "paraly" \in move.effect_words THEN PARALYSIS
    ELSE IF "burn" \in move.effect_words THEN BURN
    ELSE IF "poison" \in move.effect_words THEN POISON
    ELSE NONE

\* whether apply_status_chance draws random.randint(1, 100)
StatusRolls(move) ==
    /\ detect_status_from_move(move) # NONE
    /\ OrDefault(move.effect_chance, 0) > 0

\* random.randint(1, 100) for random() = u / RngMod
RandInt100(u) == 1 + ((100 * u) \div RngMod)

\* (a slip: the effect chance not looked at)
apply_status_chance_always(move, target_status, u) ==
    IF detect_status_from_move(move) = NONE THEN target_status
    ELSE detect_status_from_move(move)

\* (a slip: poison given whenever the text mentions it)
apply_status_chance_poisonfirst(move, target_status, u) ==
    IF detect_status_from_move(move) = NONE THEN target_status
    ELSE IF OrDefault(move.effect_chance, 0) > 0
            /\ RandInt100(u) <= OrDefault(move.effect_chance, 0)
         THEN (IF "poison" \in move.effect_words THEN POISON
               ELSE detect_status_from_move(move))
         ELSE target_status

apply_status_chance(move, target_status, u) ==
    IF detect_status_from_move(move) = NONE THEN target_status
    ELSE IF OrDefault(move.effect_chance, 0) > 0
            /\ RandInt100(u) <= OrDefault(move.effect_chance, 0)
         THEN detect_status_from_move(move)
         ELSE target_status


(***************************************************************************)
(* The module-level random generator.  Entropy is the generator as the     *)
(* process seeded it from the operating system: any value can come next.   *)
(* After random.seed(n) the stream is a function of n.                     *)
(***************************************************************************)
Entropy == -1
RngStates == {Entropy} \cup (0..(RngCycle - 1))
SeedState(n) == n % RngCycle
Step(g) == (g + 1) % RngCycle
\* the value the generator in state g returns
Out(g) == g % RngMod

\* the values a draw can return, and the generator after it
Draws(g, need) == IF ~need THEN {0} ELSE IF g = Entropy THEN 0..(RngMod - 1) ELSE {Out(g)}
Adv(g, need) == IF need /\ g # Entropy THEN Step(g) ELSE g

\* (a slip: the seed of the request ignored)
SeedRng_ignored(random_seed, g) == g

\* simulate_battle: if req.random_seed is not None: random.seed(req.random_seed)
SeedRng(random_seed, g) == IF random_seed = None THEN g ELSE SeedState(random_seed[1])

(***************************************************************************)
(* Requests.                                                               *)
(***************************************************************************)
Reqs == {1, 2}
MoveLists == {<< >>, <<"smog">>, <<"zap">>, <<"splash">>}
\* the creatures of the battles explored with every move list
Fighters == {"charm", "rat"}
Seeds == {None} \cup {Some(n) : n \in 1..MaxSeed}

\* every url fetch_json is asked for
PokemonKeys(name) == <<<<"pokemon", name>>, <<"pokemon-species", name>>,
                       <<"evolution-chain", name>>>>
TypeListKey == <<"type">>
TypeKey(t) == <<"type", t>>
MoveKey(m) == <<"move", m>>
ChartKey == <<"type_chart">>
Urls == {PokemonKeys(p)[i] : p \in PokemonNames, i \in 1..3} \cup {TypeListKey}
          \cup {TypeKey(t) : t \in TypeNames} \cup {MoveKey(m) : m \in MoveNames}

\* explicit turn budgets, every move list, upstream healthy
BoundedRequests ==
    [attacker : Fighters, defender : Fighters,
     attacker_moves : MoveLists, defender_moves : MoveLists,
     level : {Some(1)},
     max_turns : {Some(n) : n \in 1..MaxTurnsBound},
     random_seed : Seeds]

\* max_turns 0 or absent (the budget is then 200 turns), with a move that
\* rolls nothing
DefaultTurnRequests ==
    [attacker : {"charm"}, defender : PokemonNames,
     attacker_moves : {<<"splash">>}, defender_moves : {<<"splash">>},
     level : {Some(1), None},
     max_turns : {None, Some(0)},
     random_seed : {None}]

\* the requests run while one upstream url answers with an error
FlakyRequests ==
    [attacker : Fighters, defender : Fighters,
     attacker_moves : MoveLists, defender_moves : MoveLists,
     level : {Some(1), None},
     max_turns : {Some(1)},
     random_seed : {Some(1)}]

\* the requests run while any set of move urls answers with an error
OutageRequests ==
    [attacker : PokemonNames, defender : {"rat"},
     attacker_moves : {<< >>, <<"smog", "zap">>}, defender_moves : {<< >>},
     level : {Some(1)},
     max_turns : {Some(1)},
     random_seed : {Some(1)}]
MoveOutages == SUBSET {MoveKey(m) : m \in MoveNames}

\* a request and the set of urls that are down while it runs
Scenarios ==
    ((BoundedRequests \cup DefaultTurnRequests) \X {{}})
      \cup (FlakyRequests \X {{k} : k \in Urls})
      \cup (OutageRequests \X MoveOutages)

\* the concurrent requests to the data endpoint GET /pokemon/move/<name>,
\* each one call of fetch_json
Fetchers == 1..MaxFetchers
FetchUrls == {MoveKey("tackle"), MoveKey("zap")}
Idle == [pc |-> "idle", url |-> << >>]

\* two requests that can overlap
PairRequests ==
    [attacker : {"charm"}, defender : {"rat"},
     attacker_moves : {<< >>}, defender_moves : {<< >>, <<"zap">>},
     level : {Some(1)},
     max_turns : {Some(1)},
     random_seed : Seeds]

VARIABLES
    req,            \* req[r]: the BattleRequest of request r
    pc,             \* pc[r]: where request r is in simulate_battle
    rng,            \* the module-level random generator (shared)
    cache,          \* pokemon_data._cache (shared): key -> value
    type_chart,     \* type_chart[r]: the local table of request r
    move,           \* move[r][side]: atk_move / def_move
    curr,           \* curr[r][side]: atk_curr / def_curr
    status,         \* status[r][side]: atk_status / def_status
    log,            \* log[r]
    turn,           \* turn[r]
    first_attacker, \* first_attacker[r], fixed at the top of each turn
    winner,         \* winner[r]: Optional name, set when the loop is left
    overlapped,     \* history: some request ran while another was in flight
    down,           \* the upstream urls that answer with an error status
    rolled,         \* history: rolled[r] is the status roll that succeeded in
                    \* the action request r has just run, if one did
    builds,         \* history: how many times build_type_chart built the table
    fetch           \* fetch[f]: the fetch_json call of data request f

vars == <<req, pc, rng, cache, type_chart, move, curr, status, log, turn,
          first_attacker, winner, overlapped, down, rolled, builds, fetch>>

LoopPcs == {"loop", "act1", "act2", "eot"}
SuspendedPcs == {"gather", "chart", "select"}
FinalPcs == {"done", "failed"}

attacker_data(r) == PokemonData[req[r].attacker]
defender_data(r) == PokemonData[req[r].defender]
data(r, side) == IF side = "attacker" THEN attacker_data(r) ELSE defender_data(r)

\* L = req.level or 50
L(r) == OrDefault(req[r].level, DefaultLevel)
\* req.max_turns or 200
MaxTurns(r) == OrDefault(req[r].max_turns, DefaultMaxTurns)

\* atk_hp / def_hp, and the derived stats
max_hp(r, side) == compute_hp_from_base(StatOr(data(r, side).stats, "hp"), L(r))
attack(r, side) == stat_at_level(StatOr(data(r, side).stats, "attack"), L(r))
sp_atk(r, side) == stat_at_level(StatOr(data(r, side).stats, "special-attack"), L(r))
speed(r, side) == stat_at_level(StatOr(data(r, side).stats, "speed"), L(r))

BothSides(a, d) == [s \in Sides |-> IF s = "attacker" THEN a ELSE d]

InitLocals ==
    /\ rng = Entropy
    /\ cache = << >>
    /\ type_chart = [r \in Reqs |-> << >>]
    /\ move = [r \in Reqs |-> BothSides(None, None)]
    /\ curr = [r \in Reqs |-> BothSides(0, 0)]
    /\ status = [r \in Reqs |-> BothSides(NONE, NONE)]
    /\ log = [r \in Reqs |-> << >>]
    /\ turn = [r \in Reqs |-> 0]
    /\ first_attacker = [r \in Reqs |-> TRUE]
    /\ winner = [r \in Reqs |-> None]
    /\ overlapped = FALSE
    /\ rolled = [r \in Reqs |-> None]
    /\ builds = 0
    /\ fetch = [f \in Fetchers |-> Idle]

\* one request arrives; no second request ever does
Init ==
    /\ \E sc \in Scenarios :
         /\ req = [r \in Reqs |-> sc[1]]
         /\ down = sc[2]
    /\ pc = [r \in Reqs |-> IF r = 1 THEN "start" ELSE "absent"]
    /\ InitLocals

\* two requests arrive, in any order and with any overlap
InitPair ==
    /\ req \in [Reqs -> PairRequests]
    /\ down = {}
    /\ pc = [r \in Reqs |-> "start"]
    /\ InitLocals

\* the event loop runs r only while no other request is inside its turn loop
CanRun(r) == \A q \in Reqs \ {r} : pc[q] \notin LoopPcs
Overlap(r) == overlapped \/ \E q \in Reqs \ {r} : pc[q] \in SuspendedPcs


(***************************************************************************)
(* fetch_json and the cache.  A fetch of a cached key returns the cached   *)
(* body; a fetch of any other key either stores the body of the 200        *)
(* response under the key or raises the 502 error and stores nothing.      *)
(***************************************************************************)
Cached(c, k) == k \in DOMAIN c
CachePut(c, k, v) == [x \in DOMAIN c \cup {k} |-> IF x = k THEN v ELSE c[x]]
\* the bodies of the urls in `keys` stored under their urls
CachePutAll(c, keys) == [x \in DOMAIN c \cup keys |-> IF x \in DOMAIN c THEN c[x] ELSE x]

\* (a slip: the status code not looked at)
Fails_never(c, k) == FALSE

\* whether fetch_json(k) raises: a miss that upstream answers with an error
Fails(c, k) == ~Cached(c, k) /\ k \in down
\* get_pokemon_data fetches the creature, its species and its evolution
\* chain in this order: the number of fetches done before one raises
RECURSIVE FetchedCount(_, _)
FetchedCount(c, keys) ==
    IF keys = << >> THEN 0
    ELSE IF Fails(c, Head(keys)) THEN 0
    ELSE 1 + FetchedCount(c, Tail(keys))
FirstKeys(keys, n) == {keys[i] : i \in 1..n}

\* the names select_move tries to load
RECURSIVE SeqToSet(_)
SeqToSet(q) == IF q = << >> THEN {} ELSE {Head(q)} \cup SeqToSet(Tail(q))
Tried(poke, provided) == SeqToSet(provided) \cup SeqToSet(poke.moves)
\* the names select_move has loaded when it returns
Loaded(poke, provided, failed) ==
    IF FirstLoaded(provided, failed) # None
    THEN {FirstLoaded(provided, failed)[1].name}
    ELSE {m \in SeqToSet(poke.moves) : Loads(m, failed)}

(***************************************************************************)
(* simulate_battle, up to the turn loop.                                   *)
(***************************************************************************)
\* lines 172-176: seed the shared generator, then wait for the two loads
Seed(r) ==
    /\ pc[r] = "start"
    /\ CanRun(r)
    /\ rng' = SeedRng(req[r].random_seed, rng)
    /\ pc' = [pc EXCEPT ![r] = "gather"]
    /\ overlapped' = Overlap(r)
    /\ UNCHANGED <<req, cache, type_chart, move, curr, status, log, turn,
                   first_attacker, winner, down, rolled, builds, fetch>>

\* lines 176-179: both get_pokemon_data calls end; a failed fetch in either
\* ends the request with the 502 error
LoadPokemon(r) ==
    /\ pc[r] = "gather"
    /\ CanRun(r)
    /\ LET ka == PokemonKeys(req[r].attacker)
           kd == PokemonKeys(req[r].defender)
           na == FetchedCount(cache, ka)
           nd == FetchedCount(cache, kd)
       IN    /\ cache' = CachePutAll(cache, FirstKeys(ka, na) \cup FirstKeys(kd, nd))
             /\ pc' = [pc EXCEPT ![r] = IF na = Len(ka) /\ nd = Len(kd)
                                        THEN "chart" ELSE "failed"]
    /\ overlapped' = Overlap(r)
    /\ UNCHANGED <<req, rng, type_chart, move, curr, status, log, turn,
                   first_attacker, winner, down, rolled, builds, fetch>>

\* lines 180-194: build_type_chart, then the HP and stats of both sides
BuildTypeChart(r) ==
    /\ pc[r] = "chart"
    /\ CanRun(r)
    /\ IF Cached(cache, ChartKey)
       THEN /\ type_chart' = [type_chart EXCEPT ![r] = cache[ChartKey]]
            /\ pc' = [pc EXCEPT ![r] = "select"]
            /\ UNCHANGED <<cache, builds>>
       ELSE IF Fails(cache, TypeListKey)
       THEN /\ pc' = [pc EXCEPT ![r] = "failed"]
            /\ UNCHANGED <<cache, type_chart, builds>>
       ELSE LET failed == {t \in TypeNames : Fails(cache, TypeKey(t))}
                chart == BuildChart(failed)
                got == {TypeListKey} \cup {TypeKey(t) : t \in TypeNames \ failed}
            IN  /\ cache' = CachePut(CachePutAll(cache, got), ChartKey, chart)
                /\ type_chart' = [type_chart EXCEPT ![r] = chart]
                /\ pc' = [pc EXCEPT ![r] = "select"]
                /\ builds' = builds + 1
    /\ curr' = [curr EXCEPT ![r] = IF pc'[r] = "select"
                                   THEN BothSides(max_hp(r, "attacker"), max_hp(r, "defender"))
                                   ELSE @]
    /\ overlapped' = Overlap(r)
    /\ UNCHANGED <<req, rng, move, status, log, turn, first_attacker, winner, down,
                   rolled, fetch>>

\* lines 197-205: the two select_move calls; failed loads are swallowed
SelectMoves(r) ==
    /\ pc[r] = "select"
    /\ CanRun(r)
    /\ LET pa == attacker_data(r)
           pd == defender_data(r)
           fa == {m \in Tried(pa, req[r].attacker_moves) : Fails(cache, MoveKey(m))}
           ma == select_move(pa, req[r].attacker_moves, fa)
           la == Loaded(pa, req[r].attacker_moves, fa)
           c1 == CachePutAll(cache, {MoveKey(m) : m \in la})
           fd == {m \in Tried(pd, req[r].defender_moves) : Fails(c1, MoveKey(m))}
           md == select_move(pd, req[r].defender_moves, fd)
           ld == Loaded(pd, req[r].defender_moves, fd)
       IN    /\ move' = [move EXCEPT ![r] = BothSides(ma, md)]
             /\ cache' = CachePutAll(c1, {MoveKey(m) : m \in ld})
    /\ status' = [status EXCEPT ![r] = BothSides(NONE, NONE)]
    /\ log' = [log EXCEPT ![r] = << >>]
    /\ turn' = [turn EXCEPT ![r] = 0]
    /\ pc' = [pc EXCEPT ![r] = "loop"]
    /\ overlapped' = Overlap(r)
    /\ UNCHANGED <<req, rng, type_chart, curr, first_attacker, winner, down,
                   rolled, builds, fetch>>


(***************************************************************************)
(* The turn loop.                                                          *)
(***************************************************************************)
\* one log line: its rendered parts (the creature's name, the name of the
\* move or status, the number, the multiplier), and the side whose branch of
\* the loop appended it
Line(kind, side, name, text, n, mult) ==
    [kind |-> kind, side |-> side, name |-> name, text |-> text, n |-> n, mult |-> mult]

\* (a slip: the attacker's own HP not looked at)
Winner_unchecked(r, c) ==
    IF c["defender"] <= 0 THEN Some(attacker_data(r).name)
    ELSE IF c["attacker"] <= 0 THEN Some(defender_data(r).name)
    ELSE None

\* lines 323-330
Winner(r, c) ==
    IF c["attacker"] > 0 /\ c["defender"] <= 0 THEN Some(attacker_data(r).name)
    ELSE IF c["defender"] > 0 /\ c["attacker"] <= 0 THEN Some(defender_data(r).name)
    ELSE None

\* (a slip: one turn too many)
LoopContinues_late(r) ==
    /\ turn[r] <= MaxTurns(r)
    /\ curr[r]["attacker"] > 0
    /\ curr[r]["defender"] > 0

\* line 219: the while condition
LoopContinues(r) ==
    /\ turn[r] < MaxTurns(r)
    /\ curr[r]["attacker"] > 0
    /\ curr[r]["defender"] > 0

\* (a slip: ties given to the defender)
FirstAttacker_strict(r) ==
    speed(r, "attacker") * (IF status[r]["attacker"] = PARALYSIS THEN 1 ELSE 2)
      > speed(r, "defender") * (IF status[r]["defender"] = PARALYSIS THEN 1 ELSE 2)

\* lines 224-226, speeds doubled: atk_eff_spd >= def_eff_spd
FirstAttacker(r) ==
    speed(r, "attacker") * (IF status[r]["attacker"] = PARALYSIS THEN 1 ELSE 2)
      >= speed(r, "defender") * (IF status[r]["defender"] = PARALYSIS THEN 1 ELSE 2)

\* lines 219-226 and 323-332: the top of a turn, or the end of the battle
LoopHead(r) ==
    /\ pc[r] = "loop"
    /\ IF LoopContinues(r)
       THEN /\ turn' = [turn EXCEPT ![r] = @ + 1]
            /\ log' = [log EXCEPT ![r] = Append(@, Line("turn", "", "", "", turn[r] + 1, << >>))]
            /\ first_attacker' = [first_attacker EXCEPT ![r] = FirstAttacker(r)]
            /\ pc' = [pc EXCEPT ![r] = "act1"]
            /\ UNCHANGED winner
       ELSE /\ winner' = [winner EXCEPT ![r] = Winner(r, curr[r])]
            /\ pc' = [pc EXCEPT ![r] = "done"]
            /\ UNCHANGED <<turn, log, first_attacker>>
    /\ UNCHANGED <<req, rng, cache, type_chart, move, curr, status, overlapped, down,
                   rolled, builds, fetch>>

\* the actor of the first / second pass of `for actor in (...)`
Actor(r) ==
    IF pc[r] = "act1"
    THEN (IF first_attacker[r] THEN "attacker" ELSE "defender")
    ELSE (IF first_attacker[r] THEN "defender" ELSE "attacker")

\* random.random() < 0.25 and random.random() < 0.0625 for random() = u / RngMod
FullParalysis(u) == 4 * u < RngMod
Crit(u) == 16 * u < RngMod
\* hits(accuracy)
hits(accuracy, u) == accuracy = None \/ RandInt100(u) <= Max(1, accuracy[1])

\* (a slip: the burn of the attacker not looked at)
Damage_unburned(r, X, uc, uu) ==
    LET Y == Other(X)
        mv == move[r][X]
        physical == mv.damage_class = "physical"
        attack_stat == IF physical THEN attack(r, X) ELSE sp_atk(r, X)
        defense_stat == IF physical THEN attack(r, Y) ELSE sp_atk(r, Y)
        stab2 == IF mv.type \in SeqToSet(data(r, X).types) THEN 3 ELSE 2
        mult == type_multiplier(type_chart[r], mv.type, data(r, Y).types)
        crit2 == IF Crit(uc) THEN 3 ELSE 2
    IN  calc_damage(L(r), OrDefault(mv.power, 0), attack_stat * 2, defense_stat,
                    stab2 * mult[1] * crit2, 4 * mult[2], uu)

\* lines 250-258 (and 282-289): calc_damage for a hit by side X
Damage(r, X, uc, uu) ==
    LET Y == Other(X)
        mv == move[r][X]
        physical == mv.damage_class = "physical"
        attack_stat == IF physical THEN attack(r, X) ELSE sp_atk(r, X)
        defense_stat == IF physical THEN attack(r, Y) ELSE sp_atk(r, Y)
        stab2 == IF mv.type \in SeqToSet(data(r, X).types) THEN 3 ELSE 2
        mult == type_multiplier(type_chart[r], mv.type, data(r, Y).types)
        crit2 == IF Crit(uc) THEN 3 ELSE 2
        attack2 == attack_stat * (IF status[r][X] = BURN /\ physical THEN 1 ELSE 2)
    IN  calc_damage(L(r), OrDefault(mv.power, 0), attack2, defense_stat,
                    stab2 * mult[1] * crit2, 4 * mult[2], uu)

\* (a slip: the damage branch taken whatever the power)
DamageDealt_unguarded(r, X, uc, uu) == Damage(r, X, uc, uu)

\* lines 248-262 (and 280-293): what a hit takes from the target's HP
DamageDealt(r, X, uc, uu) ==
    IF OrDefault(move[r][X].power, 0) > 0 THEN Damage(r, X, uc, uu) ELSE 0

\* (a slip: the line of a skipped or missed action logged twice)
SkipLines_twice(kind, X, user_name, text) ==
    <<Line(kind, X, user_name, text, 0, << >>), Line(kind, X, user_name, text, 0, << >>)>>

\* lines 241 and 245 (275 and 278): what an action that is skipped by full
\* paralysis, or that misses, appends to the log before `continue`
SkipLines(kind, X, user_name, text) == <<Line(kind, X, user_name, text, 0, << >>)>>

\* after an action: the faint check of line 300, else the next actor
AfterAct(r, c) ==
    IF c["attacker"] <= 0 \/ c["defender"] <= 0 THEN "eot"
    ELSE IF pc[r] = "act1" THEN "act2" ELSE "eot"

\* lines 229-301: one pass of the for loop
Act(r) ==
    /\ pc[r] \in {"act1", "act2"}
    /\ LET X == Actor(r)
           Y == Other(X)
           mv == move[r][X]
           user_name == data(r, X).name
           target_name == data(r, Y).name
           para == status[r][X] = PARALYSIS
           rolls == mv.accuracy # None
           power == OrDefault(mv.power, 0)
       IN  IF curr[r]["attacker"] <= 0 \/ curr[r]["defender"] <= 0
           THEN /\ pc' = [pc EXCEPT ![r] = "eot"]
                /\ UNCHANGED <<rng, curr, status, log, rolled>>
           ELSE
           \E u1 \in Draws(rng, para) :
           LET g1 == Adv(rng, para) IN
           IF para /\ FullParalysis(u1)
           THEN /\ log' = [log EXCEPT ![r] = @ \o SkipLines("paralyzed", X, user_name, "")]
                /\ rng' = g1
                /\ pc' = [pc EXCEPT ![r] = AfterAct(r, curr[r])]
                /\ rolled' = [rolled EXCEPT ![r] = None]
                /\ UNCHANGED <<curr, status>>
           ELSE
           \E u2 \in Draws(g1, rolls) :
           LET g2 == Adv(g1, rolls) IN
           IF ~hits(mv.accuracy, u2)
           THEN /\ log' = [log EXCEPT ![r] = @ \o SkipLines("missed", X, user_name, mv.name)]
                /\ rng' = g2
                /\ pc' = [pc EXCEPT ![r] = AfterAct(r, curr[r])]
                /\ rolled' = [rolled EXCEPT ![r] = None]
                /\ UNCHANGED <<curr, status>>
           ELSE
           \E uc \in Draws(g2, power > 0) :
           LET g3 == Adv(g2, power > 0) IN
           \E uu \in Draws(g3, power > 0) :
           LET g4 == Adv(g3, power > 0) IN
           \E us \in Draws(g4, StatusRolls(mv)) :
           LET g5 == Adv(g4, StatusRolls(mv))
               dmg == DamageDealt(r, X, uc, uu)
               hp == IF dmg > 0 THEN Max(0, curr[r][Y] - dmg) ELSE curr[r][Y]
               used == IF power > 0
                       THEN Line("used", X, user_name, mv.name, dmg,
                                 type_multiplier(type_chart[r], mv.type, data(r, Y).types))
                       ELSE Line("nodamage", X, user_name, mv.name, 0, << >>)
               new_status == apply_status_chance(mv, status[r][Y], us)
               changed == new_status # NONE /\ new_status # status[r][Y]
               c == [curr[r] EXCEPT ![Y] = hp]
               success == StatusRolls(mv) /\ RandInt100(us) <= OrDefault(mv.effect_chance, 0)
           IN  /\ curr' = [curr EXCEPT ![r] = c]
               /\ rolled' = [rolled EXCEPT ![r] =
                               IF success
                               THEN Some([target |-> Y, status |-> detect_status_from_move(mv)])
                               ELSE None]
               /\ status' = [status EXCEPT ![r][Y] = IF changed THEN new_status ELSE @]
               /\ log' = [log EXCEPT ![r] =
                            IF changed
                            THEN @ \o <<used, Line("status", Y, target_name, new_status, 0, << >>)>>
                            ELSE Append(@, used)]
               /\ rng' = g5
               /\ pc' = [pc EXCEPT ![r] = AfterAct(r, c)]
    /\ UNCHANGED <<req, cache, type_chart, move, turn, first_attacker, winner, overlapped,
                   down, builds, fetch>>

\* (a slip: the tick not floored at 0)
apply_eot_unfloored(st, curr_hp, maxhp) ==
    IF st = BURN THEN curr_hp - Max(1, Trunc(maxhp, 16))
    ELSE IF st = POISON THEN curr_hp - Max(1, Trunc(maxhp, 8))
    ELSE curr_hp

\* lines 304-314: the HP after the tick
apply_eot(st, curr_hp, maxhp) ==
    IF st = BURN THEN Max(0, curr_hp - Max(1, Trunc(maxhp, 16)))
    ELSE IF st = POISON THEN Max(0, curr_hp - Max(1, Trunc(maxhp, 8)))
    ELSE curr_hp

\* lines 309 and 313: the log lines of the tick
EotLines(side, name, st, maxhp) ==
    IF st = BURN THEN <<Line("burn", side, name, "", Max(1, Trunc(maxhp, 16)), << >>)>>
    ELSE IF st = POISON THEN <<Line("poison", side, name, "", Max(1, Trunc(maxhp, 8)), << >>)>>
    ELSE << >>

\* lines 303-321 (and 323-332 when the loop is left)
EndOfTurn(r) ==
    /\ pc[r] = "eot"
    /\ LET c == [s \in Sides |-> apply_eot(status[r][s], curr[r][s], max_hp(r, s))]
       IN  /\ curr' = [curr EXCEPT ![r] = c]
           /\ log' = [log EXCEPT ![r] =
                        @ \o EotLines("attacker", attacker_data(r).name,
                                      status[r]["attacker"], max_hp(r, "attacker"))
                          \o EotLines("defender", defender_data(r).name,
                                      status[r]["defender"], max_hp(r, "defender"))]
           /\ IF c["attacker"] <= 0 \/ c["defender"] <= 0
              THEN /\ winner' = [winner EXCEPT ![r] = Winner(r, c)]
                   /\ pc' = [pc EXCEPT ![r] = "done"]
              ELSE /\ pc' = [pc EXCEPT ![r] = "loop"]
                   /\ UNCHANGED winner
    /\ rolled' = [rolled EXCEPT ![r] = None]
    /\ UNCHANGED <<req, rng, cache, type_chart, move, status, turn, first_attacker,
                   overlapped, down, builds, fetch>>

(***************************************************************************)
(* The cache is a TTLCache(maxsize=2000, ttl=3600): an entry is gone one   *)
(* hour after it was stored.  Expire is an hour in which nothing is        *)
(* stored: every entry is gone.  It is explored while no battle request is *)
(* in flight; inside a request an expiry changes which urls are fetched    *)
(* again, and upstream answers a url the same way throughout a run.        *)
(***************************************************************************)
Expire ==
    /\ cache # << >>
    /\ \A r \in Reqs : pc[r] \in {"start", "absent"} \cup FinalPcs
    /\ cache' = << >>
    /\ UNCHANGED <<req, pc, rng, type_chart, move, curr, status, log, turn,
                   first_attacker, winner, overlapped, down, rolled, builds, fetch>>

Next ==
    \/ \E r \in Reqs :
          \/ Seed(r)
          \/ LoadPokemon(r)
          \/ BuildTypeChart(r)
          \/ SelectMoves(r)
          \/ LoopHead(r)
          \/ Act(r)
          \/ EndOfTurn(r)
    \/ Expire

(***************************************************************************)
(* fetch_json call by call: the requests to GET /pokemon/move/<name>, each *)
(* one call.  A call that misses the cache is suspended at                 *)
(* `await async_client.get(url)`; any other call, and the expiry of the    *)
(* cache, can run meanwhile.  Upstream answers each call with 200 or with  *)
(* an error status.                                                        *)
(***************************************************************************)
\* the body of upstream's answer to GET url
Body(url, status_code) == IF status_code = 200 THEN url ELSE <<"error", url>>

\* (a slip: the answer stored whatever its status)
Store_unchecked(c, url, status_code) == CachePut(c, url, Body(url, status_code))

\* lines 17-20: what an answer leaves in the cache
Store(c, url, status_code) ==
    IF status_code # 200 THEN c ELSE CachePut(c, url, Body(url, status_code))

\* lines 14-16: the cached body is returned, or the request is sent
FetchCall(f, url) ==
    /\ fetch[f].pc = "idle"
    /\ fetch' = [fetch EXCEPT ![f] =
                    IF Cached(cache, url)
                    THEN [pc |-> "returned", url |-> url, data |-> cache[url]]
                    ELSE [pc |-> "inflight", url |-> url]]
    /\ UNCHANGED <<req, pc, rng, cache, type_chart, move, curr, status, log, turn,
                   first_attacker, winner, overlapped, down, rolled, builds>>

\* lines 16-21: the answer arrives
FetchAnswer(f) ==
    /\ fetch[f].pc = "inflight"
    /\ \E status_code \in {200, 404, 500} :
         /\ cache' = Store(cache, fetch[f].url, status_code)
         /\ fetch' = [fetch EXCEPT ![f] =
                         IF status_code # 200
                         THEN [pc |-> "raised", url |-> @.url]
                         ELSE [pc |-> "returned", url |-> @.url,
                               data |-> Body(@.url, status_code)]]
    /\ UNCHANGED <<req, pc, rng, type_chart, move, curr, status, log, turn,
                   first_attacker, winner, overlapped, down, rolled, builds>>

NextFetch ==
    \/ \E f \in Fetchers :
          \/ \E url \in FetchUrls : FetchCall(f, url)
          \/ FetchAnswer(f)
    \/ Expire

\* no battle request, only requests to the data endpoint
InitFetch ==
    /\ req = [r \in Reqs |-> [attacker |-> "charm", defender |-> "rat",
                              attacker_moves |-> << >>, defender_moves |-> << >>,
                              level |-> None, max_turns |-> None, random_seed |-> None]]
    /\ down = {}
    /\ pc = [r \in Reqs |-> "absent"]
    /\ InitLocals

Spec == Init /\ [][Next]_vars
SpecFetch == InitFetch /\ [][NextFetch]_vars
SpecPair == InitPair /\ [][Next]_vars
\* the event loop runs a ready coroutine, and every upstream fetch ends
\* (httpx.AsyncClient(timeout=20)): a request that can step does
FairSpec == Spec /\ WF_vars(Next)

(***************************************************************************)
(* Properties.                                                             *)
(***************************************************************************)
Finished(r) == pc[r] \in FinalPcs
Alive(r, s) == curr[r][s] > 0
Power(r, s) == OrDefault(move[r][s].power, 0)
Outcome(r) == [winner |-> winner[r], turns |-> turn[r], log |-> log[r]]
ActionKinds == {"paralyzed", "missed", "used", "nodamage"}
TickKinds == {"burn", "poison"}
\* the index of the last "-- Turn n --" line of a log (0 when there is none)
LastHeader(lg) ==
    LET hs == {i \in 1..Len(lg) : lg[i].kind = "turn"}
    IN  IF hs = {} THEN 0 ELSE CHOOSE i \in hs : \A j \in hs : j <= i
\* the indices of the action lines of the current turn's block
BlockActions(lg, side) ==
    {i \in (LastHeader(lg) + 1)..Len(lg) : lg[i].kind \in ActionKinds /\ lg[i].side = side}
\* the lines a step appends
NewLines(r) == SubSeq(log'[r], Len(log[r]) + 1, Len(log'[r]))

\* C1: every request ends, and a request with max_turns >= 1 that returns
\* an outcome returns turns <= max_turns.
C1_HaltsWithinBudget ==
    /\ <>Finished(1)
    /\ [](/\ pc[1] \in LoopPcs \cup {"done"}
          /\ req[1].max_turns # None
          /\ req[1].max_turns # Some(0)
          => turn[1] <= req[1].max_turns[1])

\* a battle that used up its whole budget with both sides alive
C1_Witness ==
    /\ pc[1] = "done"
    /\ req[1].max_turns = Some(MaxTurnsBound)
    /\ turn[1] = MaxTurnsBound
    /\ Alive(1, "attacker") /\ Alive(1, "defender")
    /\ \E i \in 1..Len(log[1]) : log[1][i].kind = "missed"

\* C2: two requests with the same seed and the same inputs, each run with
\* no other request in flight, return the same winner, turns and log.
C2_SeededRunsAgree ==
    (/\ pc[1] = "done" /\ pc[2] = "done"
     /\ req[1] = req[2]
     /\ req[1].random_seed # None
     /\ ~overlapped)
    => Outcome(1) = Outcome(2)

\* two seeded runs, one after the other, whose battles rolled for damage
C2_Witness ==
    /\ pc[1] = "done" /\ pc[2] = "done"
    /\ req[1] = req[2]
    /\ req[1].random_seed # None
    /\ ~overlapped
    /\ \E i \in 1..Len(log[2]) : log[2][i].kind = "used"

\* C3: the outcome of a seeded request does not depend on another request
\* being interleaved with it: two requests with the same seed and inputs
\* return the same outcome however they overlap.
C3_SeededOutcomeIsolated ==
    (/\ pc[1] = "done" /\ pc[2] = "done"
     /\ req[1] = req[2]
     /\ req[1].random_seed # None)
    => Outcome(1) = Outcome(2)

\* C4 as stated: the winner is the attacker's name exactly when only the
\* attacker is alive, the defender's name exactly when only the defender is
\* alive, and none otherwise.
C4_WinnerExactly ==
    pc[1] = "done" =>
      /\ winner[1] = Some(attacker_data(1).name)
            <=> (Alive(1, "attacker") /\ ~Alive(1, "defender"))
      /\ winner[1] = Some(defender_data(1).name)
            <=> (Alive(1, "defender") /\ ~Alive(1, "attacker"))
      /\ winner[1] = None
            <=> (Alive(1, "attacker") <=> Alive(1, "defender"))

\* C4 amended: the side that alone is alive gives its name to the winner,
\* and the two rules are exact when the two names differ; the result is a
\* draw exactly when both are alive (the budget is then used up) or both are
\* at 0 HP (turns is then the turn of the last block of the log).
C4_WinnerBySurvivor ==
    pc[1] = "done" =>
      /\ (Alive(1, "attacker") /\ ~Alive(1, "defender"))
            => winner[1] = Some(attacker_data(1).name)
      /\ (Alive(1, "defender") /\ ~Alive(1, "attacker"))
            => winner[1] = Some(defender_data(1).name)
      /\ winner[1] = None
            <=> (Alive(1, "attacker") <=> Alive(1, "defender"))
      /\ (Alive(1, "attacker") /\ Alive(1, "defender")) => turn[1] = MaxTurns(1)
      /\ (~Alive(1, "attacker") /\ ~Alive(1, "defender"))
            => /\ curr[1]["attacker"] = 0 /\ curr[1]["defender"] = 0
               /\ LastHeader(log[1]) > 0
               /\ log[1][LastHeader(log[1])].n = turn[1]
      /\ attacker_data(1).name # defender_data(1).name
            => /\ winner[1] = Some(attacker_data(1).name)
                    => (Alive(1, "attacker") /\ ~Alive(1, "defender"))
               /\ winner[1] = Some(defender_data(1).name)
                    => (Alive(1, "defender") /\ ~Alive(1, "attacker"))

\* both sides at 0 HP after the same turn: a draw
C4_Witness ==
    /\ pc[1] = "done"
    /\ curr[1]["attacker"] = 0 /\ curr[1]["defender"] = 0
    /\ winner[1] = None
    /\ turn[1] >= 1

\* C5: once a side is knocked out in the action phase, nothing more happens
\* to the HP of either side in that turn.
C5_NoTickAfterKnockout ==
    [][(pc[1] = "eot" /\ (~Alive(1, "attacker") \/ ~Alive(1, "defender")))
         => curr'[1] = curr[1]]_vars

\* C6: the end-of-turn step appends no burn/poison line for a side that is
\* at 0 HP when the step starts.
C6_NoTickLineForFainted ==
    [][pc[1] = "eot" =>
         \A s \in Sides :
           ~Alive(1, s) =>
             \A i \in 1..Len(NewLines(1)) :
               ~(NewLines(1)[i].kind \in TickKinds /\ NewLines(1)[i].side = s)]_vars

\* C7 as stated: while a side's move has power 0, the HP of the side it is
\* used on never goes down, in any step of the battle.
C7_ZeroPowerNeverLowersHp ==
    [][\A s \in Sides :
         (pc[1] \in LoopPcs /\ Power(1, s) = 0)
           => curr'[1][Other(s)] >= curr[1][Other(s)]]_vars

\* C7 amended: the action of a side whose move has power 0 leaves the HP of
\* both sides as they were (the status it may inflict takes HP only at the
\* end-of-turn step).
C7_ZeroPowerActionKeepsHp ==
    [][(pc[1] \in {"act1", "act2"} /\ Power(1, Actor(1)) = 0)
         => curr'[1] = curr[1]]_vars

\* a power-0 move was used, it poisoned its target, and the target has lost
\* HP to the tick
C7_Witness ==
    /\ pc[1] = "loop"
    /\ \E s \in Sides :
         /\ Power(1, s) = 0
         /\ Power(1, Other(s)) = 0
         /\ status[1][Other(s)] = POISON
         /\ curr[1][Other(s)] < max_hp(1, Other(s))
         /\ \E i \in 1..Len(log[1]) :
              log[1][i].kind = "nodamage" /\ log[1][i].side = s

\* C8: from the start of the battle on, 0 <= HP <= max HP for both sides,
\* and no step of the loop raises a side's HP.
C8_HpBoundedNonIncreasing ==
    /\ [](pc[1] \in {"select", "done"} \cup LoopPcs =>
            \A s \in Sides : 0 <= curr[1][s] /\ curr[1][s] <= max_hp(1, s))
    /\ [][pc[1] \in LoopPcs =>
            \A s \in Sides : curr'[1][s] <= curr[1][s]]_vars

\* a battle in which a side fell to 0 HP by the tick of its status
C8_Witness ==
    /\ pc[1] = "done"
    /\ \E s \in Sides :
         /\ curr[1][s] = 0
         /\ status[1][s] \in {BURN, POISON}
         /\ Alive(1, Other(s))
         /\ curr[1][Other(s)] < max_hp(1, Other(s))
         /\ log[1][Len(log[1])].kind \in TickKinds

\* C9: a request with max_turns = 0 executes no turn and returns no winner,
\* turns = 0 and an empty log.
C9_ZeroBudgetIsImmediateDraw ==
    req[1].max_turns = Some(0) =>
      /\ turn[1] = 0
      /\ log[1] = << >>
      /\ winner[1] = None

\* the doubled effective speed of a side, from its status now
EffSpeed2(r, s) == speed(r, s) * (IF status[r][s] = PARALYSIS THEN 1 ELSE 2)
\* no action line of side `late` comes before one of side `early` in the
\* current block
Precedes(lg, early, late) ==
    \A i \in BlockActions(lg, early), j \in BlockActions(lg, late) : i < j

\* C10: at the top of a turn the side with the higher effective speed is
\* made the first actor, the attacker on a tie; the order stays as it is
\* for the turn, and within the turn's block of the log the first actor's
\* action line precedes the other's.
C10_FasterActsFirst ==
    /\ [](pc[1] = "act1" =>
            /\ EffSpeed2(1, "attacker") >= EffSpeed2(1, "defender")
                  => Actor(1) = "attacker"
            /\ EffSpeed2(1, "attacker") < EffSpeed2(1, "defender")
                  => Actor(1) = "defender")
    /\ [][pc[1] \in {"act1", "act2"} => first_attacker'[1] = first_attacker[1]]_vars
    /\ [](pc[1] \in {"act1", "act2", "eot"} =>
            IF first_attacker[1]
            THEN Precedes(log[1], "attacker", "defender")
            ELSE Precedes(log[1], "defender", "attacker"))

\* the attacker has the lower speed stat but the defender is paralyzed: the
\* attacker acted first, and both have acted
C10_Witness ==
    /\ pc[1] = "eot"
    /\ speed(1, "attacker") < speed(1, "defender")
    /\ first_attacker[1]
    /\ BlockActions(log[1], "attacker") # {}
    /\ BlockActions(log[1], "defender") # {}
    /\ Precedes(log[1], "attacker", "defender")

\* the explicit names of a side, and whether upstream serves a move
Explicit(r, s) == IF s = "attacker" THEN req[r].attacker_moves ELSE req[r].defender_moves
MoveUp(m) == m \in MoveNames /\ MoveKey(m) \notin down
Qualifies(m) ==
    /\ MoveUp(m)
    /\ MoveData[m].power \notin {None, Some(0)}
    /\ MoveData[m].damage_class \in {"physical", "special"}

\* C11: select_move never raises and always returns a move: the first
\* explicit name that loads; else, of the creature's first 40 known moves,
\* the loadable physical/special one of the highest power (the first found
\* on a tie); else struggle, power 50, accuracy 100, of the creature's first
\* type.  This for every set of move urls that fail.
C11_SelectsWithoutRaising ==
    /\ [](pc[1] \in LoopPcs \cup {"done"} =>
            \A s \in Sides :
              LET names == Explicit(1, s)
                  known == data(1, s).moves
                  up == {i \in 1..Len(names) : MoveUp(names[i])}
                  scan == {i \in 1..Len(known) : i <= FallbackScan /\ Qualifies(known[i])}
                  mv == move[1][s]
              IN  IF up # {}
                  THEN \E i \in up : /\ mv = MoveData[names[i]]
                                     /\ \A j \in up : i <= j
                  ELSE IF scan # {}
                  THEN \E i \in scan :
                         /\ mv = MoveData[known[i]]
                         /\ \A j \in scan :
                              \/ MoveData[known[j]].power[1] < mv.power[1]
                              \/ MoveData[known[j]].power[1] = mv.power[1] /\ i <= j
                  ELSE /\ mv.name = "struggle"
                       /\ mv.power = Some(50) /\ mv.accuracy = Some(100)
                       /\ mv.type = data(1, s).types[1]
                       /\ mv.damage_class = "physical")
    /\ [][(pc[1] = "select" /\ pc'[1] # "select") => pc'[1] = "loop"]_vars

\* both explicit names and every damaging known move failed to load: the
\* battle runs with struggle
C11_Witness ==
    /\ pc[1] = "loop"
    /\ req[1].attacker = "charm"
    /\ req[1].attacker_moves = <<"smog", "zap">>
    /\ MoveKey("splash") \notin down
    /\ move[1]["attacker"].name = "struggle"
    /\ move[1]["defender"].name # "struggle"

\* the urls of the two named creatures, and of the named moves
CreatureKeys(r) ==
    {PokemonKeys(n)[i] : n \in {req[r].attacker, req[r].defender}, i \in 1..3}
NamedMoveKeys(r) ==
    {MoveKey(m) : m \in SeqToSet(req[r].attacker_moves) \cup SeqToSet(req[r].defender_moves)}
NoResult(r) ==
    /\ turn[r] = 0 /\ log[r] = << >> /\ winner[r] = None
    /\ pc[r] \notin LoopPcs \cup {"done"}

\* C12 as stated: when the fetch of a named creature or of a named move
\* fails, the request fails: no turn is run and no result is returned.
C12_NamedFailureFailsRequest ==
    (down \cap (CreatureKeys(1) \cup NamedMoveKeys(1)) # {}) => NoResult(1)

\* C12 amended: when a fetch for a named creature fails the request ends
\* with the 502 error at the loading step, with no turn run and no result;
\* when only move urls fail the request never ends with the error.
C12_CreatureFailureFailsRequest ==
    /\ [](down \cap CreatureKeys(1) # {} =>
            /\ NoResult(1)
            /\ pc[1] \in {"start", "gather", "failed"})
    /\ [][(pc[1] = "gather" /\ pc'[1] # "gather" /\ down \cap CreatureKeys(1) # {})
            => pc'[1] = "failed"]_vars
    /\ [](down \subseteq {MoveKey(m) : m \in MoveNames} => pc[1] # "failed")

\* the species of the defender could not be fetched: the request has failed,
\* and what was fetched before is in the cache
C12_Witness ==
    /\ pc[1] = "failed"
    /\ req[1].attacker # req[1].defender
    /\ PokemonKeys(req[1].defender)[2] \in down
    /\ Cached(cache, PokemonKeys(req[1].attacker)[3])
    /\ Cached(cache, PokemonKeys(req[1].defender)[1])
    /\ turn[1] = 0 /\ log[1] = << >> /\ winner[1] = None

\* C13: the type-effectiveness table is built at most once: once a call of
\* build_type_chart has built it, no later call fetches the type data and
\* builds it again.
C13_ChartBuiltOnce == builds <= 1

\* a table with a row for every listed type and, in each row, one of the four
\* multipliers (kept doubled) for every listed type
Complete(chart) ==
    \A a \in TypeNames :
      /\ a \in DOMAIN chart
      /\ \A d \in TypeNames : d \in DOMAIN chart[a] /\ chart[a][d] \in {0, 1, 2, 4}

\* C14: every table build_type_chart returns or caches is complete, also
\* when the fetch of one type's data fails during the build.
C14_ChartComplete ==
    /\ pc[1] \in {"select", "done"} \cup LoopPcs => Complete(type_chart[1])
    /\ Cached(cache, ChartKey) => Complete(cache[ChartKey])

\* C15: whatever the interleaving of fetch_json calls, every entry stored
\* under a url is the body of a 200 answer for that url, a call returns such
\* a body, and a call that fails leaves the cache as it was.
C15_CacheHoldsOnlyGoodBodies ==
    /\ [](\A url \in DOMAIN cache \cap Urls : cache[url] = Body(url, 200))
    /\ [](\A f \in Fetchers :
            fetch[f].pc = "returned" => fetch[f].data = Body(fetch[f].url, 200))
    /\ [][\A f \in Fetchers :
            (fetch[f].pc = "inflight" /\ fetch'[f].pc = "raised") => cache' = cache]_vars

\* three calls for the same url were in flight together: one has stored the
\* body, one has failed after that, and the entry is still there
C15_Witness ==
    /\ fetch[1].pc = "returned" /\ fetch[2].pc = "raised" /\ fetch[3].pc = "inflight"
    /\ fetch[1].url = fetch[2].url /\ fetch[2].url = fetch[3].url
    /\ Cached(cache, fetch[1].url)

\* C16: a side holds one status, one of none, paralysis, burn, poison; after
\* a status roll against a side has succeeded, the side's status is the
\* status of that roll.
C16_StatusIsLatestRoll ==
    /\ \A s \in Sides : status[1][s] \in Statuses
    /\ rolled[1] # None => status[1][rolled[1][1].target] = rolled[1][1].status

\* a roll has succeeded against a side that went into the turn with a status
C16_Witness ==
    /\ pc[1] \in {"act2", "eot"}
    /\ rolled[1] # None
    /\ rolled[1][1].status = BURN
    /\ \E i \in 1..LastHeader(log[1]) :
         log[1][i].kind = "status" /\ log[1][i].side = rolled[1][1].target

\* a side with base hp 100 in a battle at level 50
Base100Level50(r, s) == StatOr(data(r, s).stats, "hp") = 100 /\ L(r) = 50

\* C17 as stated: a level 50 creature with base hp 100 starts the battle with
\* max HP 225.
C17_MaxHpIs225 ==
    \A s \in Sides :
      (pc[1] = "select" /\ Base100Level50(1, s))
        => (curr[1][s] = 225 /\ compute_hp_from_base(100, 50) = 225)

\* C17 amended: max HP is max(1, floor((2*base + 31) * level / 100 + level
\* + 10)), both sides start the battle with it, and for base hp 100 at level
\* 50 it is 175.
C17_MaxHpIs175 ==
    \A s \in Sides :
      pc[1] = "select" =>
        /\ curr[1][s] = Max(1, (((2 * StatOr(data(1, s).stats, "hp") + 31) * L(1)) \div 100)
                                 + L(1) + 10)
        /\ Base100Level50(1, s) => (curr[1][s] = 175 /\ compute_hp_from_base(100, 50) = 175)

\* a defender with base hp 100 at the default level, about to start with 175
C17_Witness ==
    /\ pc[1] = "select"
    /\ req[1].level = None
    /\ Base100Level50(1, "defender")
    /\ curr[1]["defender"] = 175

\* C18: an action that is skipped by full paralysis, or that misses, leaves
\* the HP and the status of both sides as they were and appends exactly one
\* line to the log.
C18_SkippedActionOnlyLogs ==
    [][(/\ pc[1] \in {"act1", "act2"}
        /\ Len(log'[1]) > Len(log[1])
        /\ NewLines(1)[1].kind \in {"paralyzed", "missed"})
         => /\ curr'[1] = curr[1]
            /\ status'[1] = status[1]
            /\ Len(NewLines(1)) = 1
            /\ NewLines(1)[1].side = Actor(1)]_vars

\* the second actor of a turn has just lost its action to full paralysis,
\* in a battle in which an action has missed
C18_Witness ==
    /\ pc[1] = "eot"
    /\ log[1][Len(log[1])].kind = "paralyzed"
    /\ \E i \in 1..Len(log[1]) : log[1][i].kind = "missed"
    /\ Alive(1, "attacker") /\ Alive(1, "defender")

\* side s was given status st in the current turn's block of the log
InflictedThisTurn(lg, s, st) ==
    \E i \in (LastHeader(lg) + 1)..Len(lg) :
      lg[i].kind = "status" /\ lg[i].side = s /\ lg[i].text = st
\* the damage a burned side's physical move can do: its attack stat halved
BurnedDamages(r, X) ==
    LET Y == Other(X)
        mv == move[r][X]
        stab2 == IF \E i \in 1..Len(data(r, X).types) : data(r, X).types[i] = mv.type
                 THEN 3 ELSE 2
        mult == type_multiplier(type_chart[r], mv.type, data(r, Y).types)
    IN  {calc_damage(L(r), mv.power[1], attack(r, X), attack(r, Y),
                     stab2 * mult[1] * crit2, 4 * mult[2], uu) :
           crit2 \in {2, 3}, uu \in 0..(RngMod - 1)}

\* C19: the order of a turn is set at the top of the turn from the statuses
\* held then and does not change within the turn; the status a side holds
\* when it acts, also one given to it earlier in the same turn, is the one
\* that counts for its action: a paralyzed side whose roll is below 0.25
\* loses the action (only a paralyzed side does), and a burned side's
\* physical move does the damage of half its attack stat.
C19_StatusCountsAtOnce ==
    /\ [][(pc[1] = "loop" /\ pc'[1] = "act1") =>
            first_attacker'[1] = (EffSpeed2(1, "attacker") >= EffSpeed2(1, "defender"))]_vars
    /\ [][pc[1] \in {"act1", "act2"} =>
            /\ first_attacker'[1] = first_attacker[1]
            /\ (status[1][Actor(1)] = PARALYSIS /\ rng # Entropy /\ FullParalysis(Out(rng)))
                  => (Len(NewLines(1)) = 1 /\ NewLines(1)[1].kind = "paralyzed")
            /\ (Len(log'[1]) > Len(log[1]) /\ NewLines(1)[1].kind = "paralyzed")
                  => status[1][Actor(1)] = PARALYSIS
            /\ (/\ Len(log'[1]) > Len(log[1])
                /\ NewLines(1)[1].kind = "used"
                /\ status[1][Actor(1)] = BURN
                /\ move[1][Actor(1)].damage_class = "physical")
                  => NewLines(1)[1].n \in BurnedDamages(1, Actor(1))]_vars

\* the second actor was paralyzed by the first actor's move and lost its
\* action in the same turn
C19_Witness ==
    /\ pc[1] = "eot"
    /\ \E s \in Sides :
         /\ InflictedThisTurn(log[1], s, PARALYSIS)
         /\ log[1][Len(log[1])].kind = "paralyzed"
         /\ log[1][Len(log[1])].side = s

\* C20: in the loop a status is never cleared, and a side's status changes
\* only in an action of the other side that was neither skipped nor missed
\* and whose move has an effect chance above 0.
C20_StatusOnlySetByOpponent ==
    [][pc[1] \in LoopPcs =>
         \A s \in Sides :
           /\ status[1][s] # NONE => status'[1][s] # NONE
           /\ status'[1][s] # status[1][s] =>
                 /\ pc[1] \in {"act1", "act2"}
                 /\ Actor(1) = Other(s)
                 /\ NewLines(1)[1].kind \in {"used", "nodamage"}
                 /\ NewLines(1)[1].side = Other(s)
                 /\ OrDefault(move[1][Other(s)].effect_chance, 0) > 0
                 /\ status'[1][s] = detect_status_from_move(move[1][Other(s)])]_vars

\* a side paralyzed in the first turn is still paralyzed when the battle
\* ends after the second
C20_Witness ==
    /\ pc[1] = "done"
    /\ turn[1] = 2
    /\ \E s \in Sides :
         /\ status[1][s] = PARALYSIS
         /\ \E i \in 1..(LastHeader(log[1]) - 1) :
              log[1][i].kind = "status" /\ log[1][i].side = s

====
